---- MODULE Spec2Model ----
(***************************************************************************)
(* The memory-matching game of src/unnamed/part_000 (the three-mode        *)
(* version of scripts.js): the module-level game state, the handlers       *)
(* initGame, flipCard, checkMatch and its two deferred callbacks,          *)
(* updateTimer, endGame, loseGame, showMainScreen and showGameScreen, and  *)
(* the browser's timers (setTimeout / setInterval) that run them.          *)
(*                                                                         *)
(* Cards are numbered 1..2N here (0..2N-1 in the source).  A card's        *)
(* status is read from its class list as the source does: Hidden = no      *)
(* 'flipped' class, Matched = 'matched', Flipped = 'flipped' without       *)
(* 'matched'.  Writes that only style the page (labels, phrases, emoji     *)
(* pictures, the 'show' animation class, the best-time text) are left out. *)
(***************************************************************************)
EXTENDS Integers, Sequences, FiniteSets

\* ------------------------------------------------------------------ bounds

\* A new session is started only while at most MaxStale timeouts are pending.
MaxStale == 1

\* Largest number of symbols the deck builder is checked with on its own.
MaxSymbols == 4

\* The main screen is shown again only while fewer than MaxTitleTimeouts
\* callbacks of the title animation are pending.
MaxTitleTimeouts == 2

\* ------------------------------------------------------- program constants

\* EMOJIS.length, the number of pairs on the board: 6 in the source, scaled to 2
\* (the smallest board on which two cards can differ), so 2 * NumPairs = 4 cards.
NumPairs == 2

TIMED_MODE_DURATION == 20000
LIMITED_MODE_MAX_ATTEMPTS == 12

\* JavaScript's null (bestTime before any record).
Null == -1

EMOJIS == 1..NumPairs
Modes == {"classic", "timed", "limited"}

\* Values of Date.now() - startTime an interval callback can read: positive,
\* since the interval first fires after startTime was taken; before, at and past
\* the timed mode's duration.
ClockReadings ==
  { TIMED_MODE_DURATION \div 2, TIMED_MODE_DURATION,
    TIMED_MODE_DURATION + TIMED_MODE_DURATION \div 2 }

\* Values Math.random() returns, in tenths.  No handler looks at a card's
\* position, so boards that differ by a permutation of the positions behave
\* alike, and one value, hence one board, stands for all of them here.
RandomDraws == {5}

\* Values of Math.random(), in tenths, for the deck builder taken on its own:
\* they send j to the first position, to the last one (i itself) and to
\* positions in between.
ShuffleDraws == {0, 3, 6, 9}

\* Delay in ms of each kind of setTimeout callback.
Delay(kind) ==
  CASE kind = "match" -> 150
    [] kind = "mismatch" -> 600
    [] kind = "winCard" -> 300
    [] kind = "loseCard" -> 300

\* ---------------------------------------------------------- pure functions

\* JavaScript's % (the sign follows the dividend).
JsRem(a, b) == IF a >= 0 THEN a % b ELSE 0 - ((0 - a) % b)

\* formatTime(ms): <<minutes, seconds, hundredths>>.
FormatTime(ms) ==
  << ms \div 60000, JsRem(ms, 60000) \div 1000, JsRem(ms, 1000) \div 10 >>

\* formatAttempts(count): <<used, max>>.
FormatAttempts(count) == << count, LIMITED_MODE_MAX_ATTEMPTS >>

\* JavaScript's !v for a number or null.
Falsy(v) == v = Null \/ v = 0

\* Variant of the loop's swap that writes position i only.
SwapWritesOne(s, i, j) == [s EXCEPT ![i] = s[j]]

\* [cardPairs[i], cardPairs[j]] = [cardPairs[j], cardPairs[i]]
Swap(s, i, j) == [s EXCEPT ![i] = s[j], ![j] = s[i]]

\* The Fisher-Yates loop of initGame from index i down, rs the Math.random()
\* values it draws: j = floor(random * (i + 1)) in the source's 0-based
\* indices, so position i here swaps with 1 + floor(r * i).
RECURSIVE ShuffleFrom(_, _, _)
ShuffleFrom(s, i, rs) ==
  IF i <= 1 THEN s
  ELSE ShuffleFrom(Swap(s, i, 1 + ((Head(rs) * i) \div 10)), i - 1, Tail(rs))

\* [...EMOJIS, ...EMOJIS] for an EMOJIS of n symbols.
CardPairsOf(n) == [k \in 1..(2 * n) |-> ((k - 1) % n) + 1]

CardPairs == CardPairsOf(NumPairs)

RECURSIVE SeqsOf(_, _)
SeqsOf(S, n) ==
  IF n = 0 THEN {<<>>}
  ELSE {<<x>> \o t : x \in S, t \in SeqsOf(S, n - 1)}

\* Every deck initGame can build.
Decks == {ShuffleFrom(CardPairs, 2 * NumPairs, rs) :
            rs \in SeqsOf(RandomDraws, 2 * NumPairs - 1)}

\* ------------------------------------------------------------------- state

VARIABLES
  screen,         \* "main" | "game": which of mainScreen / gameScreen is displayed
  currentMode,
  cards,          \* cards[i] = card i's dataset.emoji; <<>> before the first game
  cls,            \* cls[i] = card i's class list, a subset of {"flipped","matched"}
  flippedCards,   \* sequence of card indices
  matchedPairs,
  isLocked,
  gameStarted,
  attempts,
  elapsedTime,
  timerInterval,  \* "null" | "active" | "cleared": the handle and its interval
  orphans,        \* number of running intervals no handle refers to any more
  timerDisplay,   \* what timerDisplay shows: FormatTime(..) or FormatAttempts(..)
  bestTime,
  stored,         \* localStorage['duoQuestBestTime'], Null when absent
  boardShown,     \* gameBoard.style.display # 'none'
  winVisible,     \* winCard has class 'visible'
  loseVisible,    \* loseCard has class 'visible'
  timeouts,       \* pending setTimeout callbacks, in the order they were set
  endGameRuns,    \* times endGame ran since the last initGame (2 = twice or more)
  loseGameRuns,   \* times loseGame ran since the last initGame (2 = twice or more)
  last,           \* the last handler that got past its early return: [op, arg, sounds]
  titleAnimRunning,
  titleAnimTimer, \* "null" | "set": null, or the handle of a titleAnimStep timeout
  titleMissCount,
  titleTimeouts   \* the pending setTimeout callbacks of the title animation,
                  \* in the order they were set

vars == << screen, currentMode, cards, cls, flippedCards, matchedPairs, isLocked,
           gameStarted, attempts, elapsedTime, timerInterval, orphans,
           timerDisplay, bestTime, stored, boardShown, winVisible, loseVisible,
           timeouts, endGameRuns, loseGameRuns, last,
           titleAnimRunning, titleAnimTimer, titleMissCount, titleTimeouts >>

titleVars == << titleAnimRunning, titleAnimTimer, titleMissCount, titleTimeouts >>

\* The game state proper: what a select may or may not change.
gameVars == << cards, cls, flippedCards, matchedPairs, isLocked, gameStarted,
               attempts, elapsedTime, timerInterval, orphans,
               timerDisplay, bestTime, stored, timeouts, endGameRuns, loseGameRuns >>

CardIds == DOMAIN cards

Hidden(c) == "flipped" \notin cls[c]
Matched(c) == "matched" \in cls[c]
Flipped(c) == "flipped" \in cls[c] /\ "matched" \notin cls[c]

StatusOf(c) ==
  IF Matched(c) THEN "matched" ELSE IF Hidden(c) THEN "hidden" ELSE "flipped"

Bump(n) == IF n >= 2 THEN 2 ELSE n + 1

\* ------------------------------------------------------------------ timers

IntervalRunning == timerInterval = "active" \/ orphans > 0

\* clearInterval(timerInterval): the handle keeps its value.
Cleared(h) == IF h = "active" THEN "cleared" ELSE h

\* A timeout set while an interval is running waits for that interval's pending
\* callback (tickDue); the wait ends when the callback ran or the interval is gone.
NoTickDue(ts) == [i \in DOMAIN ts |-> [ts[i] EXCEPT !.tickDue = FALSE]]

Timeout(kind, c1, c2, due) ==
  [kind |-> kind, c1 |-> c1, c2 |-> c2, stale |-> FALSE, tickDue |-> due]

\* Timers run no earlier than their delay and in no fixed order, except that a
\* timeout waits for every timeout set before it with an equal or shorter delay.
MayFire(i) ==
  /\ i \in DOMAIN timeouts
  /\ ~timeouts[i].tickDue
  /\ \A j \in 1..(i - 1) : Delay(timeouts[j].kind) > Delay(timeouts[i].kind)

Without(ts, i) == SubSeq(ts, 1, i - 1) \o SubSeq(ts, i + 1, Len(ts))

\* initGame empties the board: the cards a pending callback holds are detached.
Detach(ts) ==
  [i \in DOMAIN ts |->
     IF ts[i].kind \in {"match", "mismatch"}
     THEN [ts[i] EXCEPT !.stale = TRUE, !.c1 = 0, !.c2 = 0]
     ELSE ts[i]]

\* ---------------------------------------------------------- title animation

\* A pending callback of the title animation: titleAnimStep itself ("step") or
\* one of the three callbacks nested in it ("second", "compare", "clear").
\* tracked: titleAnimTimer holds its handle.  match: the two letters picked by
\* the step are equal.  old: it was set before the last stopTitleAnimation.
TitleTimeout(kind, delay, tracked, match, old) ==
  [kind |-> kind, delay |-> delay, tracked |-> tracked, match |-> match,
   old |-> old]

\* titleAnimTimer is assigned a new handle: it no longer holds any other.
Untracked(ts) == [i \in DOMAIN ts |-> [ts[i] EXCEPT !.tracked = FALSE]]

IsUntracked(t) == ~t.tracked

MarkOld(ts) == [i \in DOMAIN ts |-> [ts[i] EXCEPT !.old = TRUE]]

\* As for the game's timeouts: a timeout waits for every timeout set before it
\* with an equal or shorter delay.
TitleMayFire(i) ==
  /\ i \in DOMAIN titleTimeouts
  /\ \A j \in 1..(i - 1) : titleTimeouts[j].delay > titleTimeouts[i].delay

startTitleAnimation ==
  /\ titleAnimRunning' = TRUE
  /\ titleAnimTimer' = "set"
  /\ titleTimeouts' = Append(Untracked(titleTimeouts),
                             TitleTimeout("step", 800, TRUE, FALSE, FALSE))
  /\ UNCHANGED titleMissCount

\* clearTimeout(titleAnimTimer) cancels the one timeout whose handle it holds.
stopTitleAnimation ==
  /\ titleAnimRunning' = FALSE
  /\ titleAnimTimer' = "null"
  /\ titleTimeouts' = MarkOld(IF titleAnimTimer = "set"
                              THEN SelectSeq(titleTimeouts, IsUntracked)
                              ELSE titleTimeouts)
  /\ UNCHANGED titleMissCount

\* What no callback of the title animation writes.
TitleFrame ==
  UNCHANGED << gameVars, screen, currentMode, boardShown, winVisible, loseVisible >>

\* titleAnimStep: picks two letters (a matching pair when titleMissCount >= 3,
\* else any two of the pool, equal or not), colours the first and sets the
\* timeout that colours the second.
titleAnimStep(i, match) ==
  LET t == titleTimeouts[i]
      rest == Without(titleTimeouts, i)
  IN  /\ TitleMayFire(i)
      /\ t.kind = "step"
      /\ titleMissCount >= 3 => match
      /\ titleTimeouts' =
           IF titleAnimRunning
           THEN Append(rest, TitleTimeout("second", 500, FALSE, match, t.old))
           ELSE rest
      /\ last' = [op |-> "titleAnimStep", arg |-> "", sounds |-> <<>>]
      /\ UNCHANGED << titleAnimRunning, titleAnimTimer, titleMissCount >>
      /\ TitleFrame

\* The first nested callback: colours the second letter.
TitleSecond(i) ==
  LET t == titleTimeouts[i]
      rest == Without(titleTimeouts, i)
  IN  /\ TitleMayFire(i)
      /\ t.kind = "second"
      /\ titleTimeouts' =
           IF titleAnimRunning
           THEN Append(rest, TitleTimeout("compare", 500, FALSE, t.match, t.old))
           ELSE rest
      /\ last' = [op |-> "titleSecond", arg |-> "", sounds |-> <<>>]
      /\ UNCHANGED << titleAnimRunning, titleAnimTimer, titleMissCount >>
      /\ TitleFrame

\* The second nested callback: compares the two letters.
TitleCompare(i) ==
  LET t == titleTimeouts[i]
      rest == Without(titleTimeouts, i)
  IN  /\ TitleMayFire(i)
      /\ t.kind = "compare"
      /\ IF ~titleAnimRunning
         THEN /\ titleTimeouts' = rest
              /\ UNCHANGED << titleAnimTimer, titleMissCount >>
         ELSE IF t.match
         THEN /\ titleMissCount' = 0
              /\ titleTimeouts' =
                   Append(rest, TitleTimeout("clear", 500, FALSE, TRUE, t.old))
              /\ UNCHANGED titleAnimTimer
         ELSE /\ titleMissCount' = titleMissCount + 1
              /\ titleAnimTimer' = "set"
              /\ titleTimeouts' =
                   Append(Untracked(rest),
                          TitleTimeout("step", 600, TRUE, FALSE, t.old))
      /\ last' = [op |-> "titleCompare", arg |-> "", sounds |-> <<>>]
      /\ UNCHANGED titleAnimRunning
      /\ TitleFrame

\* The third nested callback, after a match: clears the colours.
TitleClear(i) ==
  LET t == titleTimeouts[i]
      rest == Without(titleTimeouts, i)
  IN  /\ TitleMayFire(i)
      /\ t.kind = "clear"
      /\ IF ~titleAnimRunning
         THEN /\ titleTimeouts' = rest
              /\ UNCHANGED titleAnimTimer
         ELSE /\ titleAnimTimer' = "set"
              /\ titleTimeouts' =
                   Append(Untracked(rest),
                          TitleTimeout("step", 600, TRUE, FALSE, t.old))
      /\ last' = [op |-> "titleClear", arg |-> "", sounds |-> <<>>]
      /\ UNCHANGED << titleAnimRunning, titleMissCount >>
      /\ TitleFrame

\* -------------------------------------------------------------------- load

\* The state after the script ran: its last statement is showMainScreen().
Init ==
  /\ titleAnimRunning = TRUE
  /\ titleAnimTimer = "set"
  /\ titleMissCount = 0
  /\ titleTimeouts = << TitleTimeout("step", 800, TRUE, FALSE, FALSE) >>
  /\ screen = "main"
  /\ currentMode = "classic"
  /\ cards = <<>>
  /\ cls = <<>>
  /\ flippedCards = <<>>
  /\ matchedPairs = 0
  /\ isLocked = FALSE
  /\ gameStarted = FALSE
  /\ attempts = 0
  /\ elapsedTime = 0
  /\ timerInterval = "null"
  /\ orphans = 0
  /\ timerDisplay = FormatTime(0)
  /\ bestTime = Null
  /\ stored = Null
  /\ boardShown = TRUE
  /\ winVisible = FALSE
  /\ loseVisible = FALSE
  /\ timeouts = <<>>
  /\ endGameRuns = 0
  /\ loseGameRuns = 0
  /\ last = [op |-> "load", arg |-> "", sounds |-> <<>>]

\* ---------------------------------------------------------------- initGame

\* What initGame writes to timerDisplay for the mode.
InitialDisplay(mode) ==
  IF mode = "timed" THEN FormatTime(TIMED_MODE_DURATION)
  ELSE IF mode = "limited" THEN FormatAttempts(0)
  ELSE FormatTime(0)

\* Variant of initGame that does not reset isLocked.
InitGameKeepsLock(mode) ==
  /\ \E d \in Decks :
       /\ cards' = d
       /\ cls' = [i \in DOMAIN d |-> {}]
  /\ flippedCards' = <<>>
  /\ matchedPairs' = 0
  /\ isLocked' = isLocked
  /\ gameStarted' = FALSE
  /\ elapsedTime' = 0
  /\ attempts' = 0
  /\ timerInterval' = "null"
  /\ timerDisplay' = InitialDisplay(mode)
  /\ winVisible' = FALSE
  /\ loseVisible' = FALSE
  /\ boardShown' = TRUE
  /\ timeouts' = IF orphans > 0 THEN Detach(timeouts) ELSE NoTickDue(Detach(timeouts))
  /\ endGameRuns' = 0
  /\ loseGameRuns' = 0
  /\ UNCHANGED << orphans, bestTime, stored >>

\* Variant of initGame that drops the interval's handle without clearInterval.
InitGameLeaksInterval(mode) ==
  /\ \E d \in Decks :
       /\ cards' = d
       /\ cls' = [i \in DOMAIN d |-> {}]
  /\ flippedCards' = <<>>
  /\ matchedPairs' = 0
  /\ isLocked' = FALSE
  /\ gameStarted' = FALSE
  /\ elapsedTime' = 0
  /\ attempts' = 0
  /\ timerInterval' = "null"
  /\ orphans' = IF timerInterval = "active" THEN Bump(orphans) ELSE orphans
  /\ timerDisplay' = InitialDisplay(mode)
  /\ winVisible' = FALSE
  /\ loseVisible' = FALSE
  /\ boardShown' = TRUE
  /\ timeouts' = Detach(timeouts)
  /\ endGameRuns' = 0
  /\ loseGameRuns' = 0
  /\ UNCHANGED << bestTime, stored >>

\* initGame, run with currentMode = mode.
InitGame(mode) ==
  /\ \E d \in Decks :
       /\ cards' = d
       /\ cls' = [i \in DOMAIN d |-> {}]
  /\ flippedCards' = <<>>
  /\ matchedPairs' = 0
  /\ isLocked' = FALSE
  /\ gameStarted' = FALSE
  /\ elapsedTime' = 0
  /\ attempts' = 0
  /\ timerInterval' = "null"
  /\ timerDisplay' = InitialDisplay(mode)
  /\ winVisible' = FALSE
  /\ loseVisible' = FALSE
  /\ boardShown' = TRUE
  /\ timeouts' = IF orphans > 0 THEN Detach(timeouts) ELSE NoTickDue(Detach(timeouts))
  /\ endGameRuns' = 0
  /\ loseGameRuns' = 0
  /\ UNCHANGED << orphans, bestTime, stored >>

\* A click on a mode card of the main screen: playSound('flip'), showGameScreen(mode).
ShowGameScreen(mode) ==
  /\ screen = "main"
  /\ Len(timeouts) <= MaxStale
  /\ currentMode' = mode
  /\ stopTitleAnimation
  /\ screen' = "game"
  /\ InitGame(mode)
  /\ last' = [op |-> "showGameScreen", arg |-> mode, sounds |-> <<"flip">>]

\* A click on playAgainBtn (on the win card) or playAgainLoseBtn (on the lose card).
PlayAgain ==
  /\ screen = "game"
  /\ winVisible \/ loseVisible
  /\ Len(timeouts) <= MaxStale
  /\ InitGame(currentMode)
  /\ last' = [op |-> "playAgain", arg |-> "", sounds |-> <<>>]
  /\ UNCHANGED << titleVars, screen, currentMode >>

\* A click on backBtn: showMainScreen.
ShowMainScreen ==
  /\ screen = "game"
  /\ Len(titleTimeouts) < MaxTitleTimeouts
  /\ screen' = "main"
  /\ startTitleAnimation
  /\ timerInterval' = "null"
  /\ timeouts' = IF orphans > 0 THEN timeouts ELSE NoTickDue(timeouts)
  /\ last' = [op |-> "showMainScreen", arg |-> "", sounds |-> <<>>]
  /\ UNCHANGED << currentMode, cards, cls, flippedCards, matchedPairs, isLocked,
                  gameStarted, attempts, elapsedTime, orphans,
                  timerDisplay, bestTime, stored, boardShown, winVisible,
                  loseVisible, endGameRuns, loseGameRuns >>

\* ---------------------------------------------------- endGame and loseGame

\* loseGame, with rest the timeouts pending when it is called.
LoseGame(rest) ==
  /\ timerInterval' = Cleared(timerInterval)
  /\ isLocked' = TRUE
  /\ timeouts' = Append(IF orphans > 0 THEN rest ELSE NoTickDue(rest),
                        Timeout("loseCard", 0, 0, orphans > 0))
  /\ loseGameRuns' = Bump(loseGameRuns)

\* endGame's test for a new best time.
NewBest == Falsy(bestTime) \/ elapsedTime < bestTime

\* Variant of endGame that records the best time in every mode.
EndGameAnyMode(rest, ok) ==
  /\ timerInterval' = Cleared(timerInterval)
  /\ endGameRuns' = Bump(endGameRuns)
  /\ IF NewBest
     THEN /\ bestTime' = elapsedTime
          /\ stored' = IF ok THEN elapsedTime ELSE stored
          /\ timeouts' =
               IF ok
               THEN Append(IF orphans > 0 THEN rest ELSE NoTickDue(rest),
                           Timeout("winCard", 0, 0, orphans > 0))
               ELSE IF orphans > 0 THEN rest ELSE NoTickDue(rest)
     ELSE /\ UNCHANGED << bestTime, stored >>
          /\ timeouts' = Append(IF orphans > 0 THEN rest ELSE NoTickDue(rest),
                                Timeout("winCard", 0, 0, orphans > 0))

\* endGame, with rest the timeouts pending when it is called.  localStorage.setItem
\* throws when ok = FALSE: the rest of endGame, the win card's timeout, is then skipped.
EndGame(rest, ok) ==
  /\ timerInterval' = Cleared(timerInterval)
  /\ endGameRuns' = Bump(endGameRuns)
  /\ IF currentMode = "classic" /\ NewBest
     THEN /\ bestTime' = elapsedTime
          /\ stored' = IF ok THEN elapsedTime ELSE stored
          /\ timeouts' =
               IF ok
               THEN Append(IF orphans > 0 THEN rest ELSE NoTickDue(rest),
                           Timeout("winCard", 0, 0, orphans > 0))
               ELSE IF orphans > 0 THEN rest ELSE NoTickDue(rest)
     ELSE /\ UNCHANGED << bestTime, stored >>
          /\ timeouts' = Append(IF orphans > 0 THEN rest ELSE NoTickDue(rest),
                                Timeout("winCard", 0, 0, orphans > 0))

\* ---------------------------------------------------------------- flipCard

\* Variant of flipCard's early return without the test of the 'flipped' class.
FlipBlockedIgnoringFace(c) ==
  \/ isLocked
  \/ "matched" \in cls[c]
  \/ Len(flippedCards) >= 2

\* Variant of flipCard's early return without the test of isLocked.
FlipBlockedIgnoringLock(c) ==
  \/ "flipped" \in cls[c]
  \/ "matched" \in cls[c]
  \/ Len(flippedCards) >= 2

\* flipCard's early return.
FlipBlocked(c) ==
  \/ isLocked
  \/ "flipped" \in cls[c]
  \/ "matched" \in cls[c]
  \/ Len(flippedCards) >= 2

\* Variant of flipCard's test that leaves out gameStarted.
StartsTimerEveryFlip == currentMode # "limited"

\* Variant of flipCard's test that starts the interval in every mode.
StartsTimerAnyMode == ~gameStarted

\* Variant of flipCard's test that starts the interval in classic mode only.
StartsTimerClassicOnly == ~gameStarted /\ currentMode = "classic"

\* flipCard starts the interval on the first accepted flip, except in limited mode.
StartsTimer == ~gameStarted /\ currentMode # "limited"

\* Variant of checkMatch's test that names the wrong mode.
CountsAttemptInTimed == currentMode = "timed"

\* checkMatch counts the attempt.
CountsAttempt == currentMode = "limited"

\* checkMatch's comparison of the two cards' symbols.
SameSymbol(c1, c2) == cards[c1] = cards[c2]

\* A click on card c: flipCard(card), and checkMatch when it is the second card.
FlipCard(c) ==
  /\ screen = "game"
  /\ boardShown
  /\ c \in CardIds
  /\ IF FlipBlocked(c)
     THEN UNCHANGED << gameVars, last >>
     ELSE LET fc == Append(flippedCards, c)
              pair == Len(fc) = 2
              handle == IF StartsTimer THEN "active" ELSE timerInterval
              lost == IF StartsTimer /\ timerInterval = "active"
                      THEN orphans + 1 ELSE orphans
              running == handle = "active" \/ lost > 0
              count == IF pair /\ CountsAttempt THEN attempts + 1 ELSE attempts
          IN  /\ gameStarted' = TRUE
              /\ timerInterval' = handle
              /\ orphans' = lost
              /\ cls' = [cls EXCEPT ![c] = @ \cup {"flipped"}]
              /\ flippedCards' = fc
              /\ isLocked' = (pair \/ isLocked)
              /\ attempts' = count
              /\ timerDisplay' = IF pair /\ CountsAttempt
                                 THEN FormatAttempts(count) ELSE timerDisplay
              /\ timeouts' =
                   IF pair
                   THEN Append(timeouts,
                               Timeout(IF SameSymbol(fc[1], fc[2])
                                       THEN "match" ELSE "mismatch",
                                       fc[1], fc[2], running))
                   ELSE timeouts
              /\ last' = [op |-> "flipCard", arg |-> StatusOf(c), sounds |-> <<"flip">>]
              /\ UNCHANGED << cards, matchedPairs, elapsedTime, bestTime, stored,
                              endGameRuns, loseGameRuns >>
  /\ UNCHANGED << titleVars, screen, currentMode, boardShown, winVisible, loseVisible >>

\* ---------------------------------------------- checkMatch's two callbacks

\* Variant of the match callback's test that is one pair short.
AllMatchedOneShort(n) == n + 1 = NumPairs

\* The match callback's test for the win.
AllMatched(n) == n = NumPairs

\* Variant of the mismatch callback's test with a strict comparison.
OutOfAttemptsStrict ==
  currentMode = "limited" /\ attempts > LIMITED_MODE_MAX_ATTEMPTS

\* Variant of the mismatch callback's test that loses one attempt early.
OutOfAttemptsEarly ==
  currentMode = "limited" /\ attempts + 1 >= LIMITED_MODE_MAX_ATTEMPTS

\* The mismatch callback's test for the loss.
OutOfAttempts == currentMode = "limited" /\ attempts >= LIMITED_MODE_MAX_ATTEMPTS

\* Variant of the match callback that marks only the first card.
MatchTimeoutFirstCardOnly(i, ok) ==
  LET t == timeouts[i]
      rest == Without(timeouts, i)
      won == AllMatched(matchedPairs + 1)
  IN  /\ MayFire(i)
      /\ t.kind = "match"
      /\ cls' = IF t.stale THEN cls
                ELSE [cls EXCEPT ![t.c1] = @ \cup {"matched"}]
      /\ matchedPairs' = matchedPairs + 1
      /\ flippedCards' = <<>>
      /\ isLocked' = FALSE
      /\ IF won
         THEN EndGame(rest, ok)
         ELSE /\ timeouts' = rest
              /\ UNCHANGED << timerInterval, bestTime, stored, endGameRuns >>
      /\ last' = [op |-> "match", arg |-> IF t.stale THEN "stale" ELSE "current",
                  sounds |-> IF won THEN <<"match", "win">> ELSE <<"match">>]
      /\ UNCHANGED << titleVars, screen, currentMode, cards, gameStarted, attempts, elapsedTime,
                      orphans, timerDisplay, boardShown, winVisible,
                      loseVisible, loseGameRuns >>

\* The 150 ms callback of checkMatch (equal symbols), timeouts[i].
MatchTimeout(i, ok) ==
  LET t == timeouts[i]
      rest == Without(timeouts, i)
      won == AllMatched(matchedPairs + 1)
  IN  /\ MayFire(i)
      /\ t.kind = "match"
      /\ cls' = IF t.stale THEN cls
                ELSE [c \in DOMAIN cls |->
                        IF c \in {t.c1, t.c2} THEN cls[c] \cup {"matched"} ELSE cls[c]]
      /\ matchedPairs' = matchedPairs + 1
      /\ flippedCards' = <<>>
      /\ isLocked' = FALSE
      /\ IF won
         THEN EndGame(rest, ok)
         ELSE /\ timeouts' = rest
              /\ UNCHANGED << timerInterval, bestTime, stored, endGameRuns >>
      /\ last' = [op |-> "match", arg |-> IF t.stale THEN "stale" ELSE "current",
                  sounds |-> IF won THEN <<"match", "win">> ELSE <<"match">>]
      /\ UNCHANGED << titleVars, screen, currentMode, cards, gameStarted, attempts, elapsedTime,
                      orphans, timerDisplay, boardShown, winVisible,
                      loseVisible, loseGameRuns >>

\* Variant of the mismatch callback that turns only the first card back.
MismatchTimeoutFirstCardOnly(i) ==
  LET t == timeouts[i]
      rest == Without(timeouts, i)
  IN  /\ MayFire(i)
      /\ t.kind = "mismatch"
      /\ cls' = IF t.stale THEN cls
                ELSE [cls EXCEPT ![t.c1] = @ \ {"flipped"}]
      /\ flippedCards' = <<>>
      /\ IF OutOfAttempts
         THEN LoseGame(rest)
         ELSE /\ isLocked' = FALSE
              /\ timeouts' = rest
              /\ UNCHANGED << timerInterval, loseGameRuns >>
      /\ last' = [op |-> "mismatch", arg |-> IF t.stale THEN "stale" ELSE "current",
                  sounds |-> <<>>]
      /\ UNCHANGED << titleVars, screen, currentMode, cards, matchedPairs, gameStarted, attempts,
                      elapsedTime, orphans, timerDisplay, bestTime, stored,
                      boardShown, winVisible, loseVisible, endGameRuns >>

\* The 600 ms callback of checkMatch (different symbols), timeouts[i].
MismatchTimeout(i) ==
  LET t == timeouts[i]
      rest == Without(timeouts, i)
  IN  /\ MayFire(i)
      /\ t.kind = "mismatch"
      /\ cls' = IF t.stale THEN cls
                ELSE [c \in DOMAIN cls |->
                        IF c \in {t.c1, t.c2} THEN cls[c] \ {"flipped"} ELSE cls[c]]
      /\ flippedCards' = <<>>
      /\ IF OutOfAttempts
         THEN LoseGame(rest)
         ELSE /\ isLocked' = FALSE
              /\ timeouts' = rest
              /\ UNCHANGED << timerInterval, loseGameRuns >>
      /\ last' = [op |-> "mismatch", arg |-> IF t.stale THEN "stale" ELSE "current",
                  sounds |-> <<>>]
      /\ UNCHANGED << titleVars, screen, currentMode, cards, matchedPairs, gameStarted, attempts,
                      elapsedTime, orphans, timerDisplay, bestTime, stored,
                      boardShown, winVisible, loseVisible, endGameRuns >>

\* The 300 ms callback of endGame (kind "winCard") or loseGame ("loseCard").
CardTimeout(i) ==
  LET t == timeouts[i]
  IN  /\ MayFire(i)
      /\ t.kind \in {"winCard", "loseCard"}
      /\ boardShown' = FALSE
      /\ winVisible' = (winVisible \/ t.kind = "winCard")
      /\ loseVisible' = (loseVisible \/ t.kind = "loseCard")
      /\ timeouts' = Without(timeouts, i)
      /\ last' = [op |-> t.kind, arg |-> "", sounds |-> <<>>]
      /\ UNCHANGED << titleVars, screen, currentMode, cards, cls, flippedCards, matchedPairs,
                      isLocked, gameStarted, attempts, elapsedTime,
                      timerInterval, orphans, timerDisplay, bestTime, stored,
                      endGameRuns, loseGameRuns >>

\* ------------------------------------------------------------- updateTimer

\* Variant of updateTimer's test with a strict comparison.
TimeIsUpStrict(remaining) == remaining < 0

\* updateTimer's test that the countdown is over.
TimeIsUp(remaining) == remaining <= 0

\* Variant of updateTimer's test that leaves out the mode.
CountdownOverAnyMode(t) == TimeIsUp(TIMED_MODE_DURATION - t)

\* updateTimer loses the game: timed mode, and the countdown is over at reading t.
CountdownOver(t) == currentMode = "timed" /\ TimeIsUp(TIMED_MODE_DURATION - t)

\* A callback of the 10 ms interval: updateTimer, reading Date.now() - startTime = t.
UpdateTimer(t) ==
  LET remaining == TIMED_MODE_DURATION - t
      over == CountdownOver(t)
  IN  /\ IntervalRunning
      /\ t \in ClockReadings
      /\ t >= elapsedTime
      /\ elapsedTime' = t
      /\ timerDisplay' = IF currentMode = "timed"
                         THEN (IF over THEN FormatTime(0) ELSE FormatTime(remaining))
                         ELSE FormatTime(t)
      /\ IF over
         THEN LoseGame(NoTickDue(timeouts))
         ELSE /\ timeouts' = NoTickDue(timeouts)
              /\ UNCHANGED << timerInterval, isLocked, loseGameRuns >>
      /\ last' = [op |-> "updateTimer", arg |-> "", sounds |-> <<>>]
      /\ UNCHANGED << titleVars, screen, currentMode, cards, cls, flippedCards, matchedPairs,
                      gameStarted, attempts, orphans, bestTime, stored, boardShown,
                      winVisible, loseVisible, endGameRuns >>

\* A step that starts a new session (initGame ran).
RestartStep == last'.op \in {"showGameScreen", "playAgain"}

\* The session has ended: endGame ran (Won) or loseGame ran (Lost) since initGame.
Won == endGameRuns > 0
Lost == loseGameRuns > 0

\* ----------------------------------------------------------- specification

Next ==
  \/ \E m \in Modes : ShowGameScreen(m)
  \/ PlayAgain
  \/ ShowMainScreen
  \/ \E c \in CardIds : FlipCard(c)
  \/ \E i \in DOMAIN timeouts : MatchTimeout(i, TRUE)
  \/ \E i \in DOMAIN timeouts : MismatchTimeout(i)
  \/ \E i \in DOMAIN timeouts : CardTimeout(i)
  \/ \E t \in ClockReadings : UpdateTimer(t)

Spec == Init /\ [][Next]_vars

\* The same program with quicker clicks: a new session may be started while one
\* more timeout is pending.
ShowGameScreenSooner(mode) ==
  /\ screen = "main"
  /\ Len(timeouts) <= MaxStale + 1
  /\ currentMode' = mode
  /\ stopTitleAnimation
  /\ screen' = "game"
  /\ InitGame(mode)
  /\ last' = [op |-> "showGameScreen", arg |-> mode, sounds |-> <<"flip">>]

PlayAgainSooner ==
  /\ screen = "game"
  /\ winVisible \/ loseVisible
  /\ Len(timeouts) <= MaxStale + 1
  /\ InitGame(currentMode)
  /\ last' = [op |-> "playAgain", arg |-> "", sounds |-> <<>>]
  /\ UNCHANGED << titleVars, screen, currentMode >>

NextSooner ==
  \/ \E m \in Modes : ShowGameScreenSooner(m)
  \/ PlayAgainSooner
  \/ ShowMainScreen
  \/ \E c \in CardIds : FlipCard(c)
  \/ \E i \in DOMAIN timeouts : MatchTimeout(i, TRUE)
  \/ \E i \in DOMAIN timeouts : MismatchTimeout(i)
  \/ \E i \in DOMAIN timeouts : CardTimeout(i)
  \/ \E t \in ClockReadings : UpdateTimer(t)

SpecSooner == Init /\ [][NextSooner]_vars

\* A callback of the interval that reads a time at or past the timed mode's
\* duration.  setInterval(updateTimer, 10) keeps calling updateTimer until
\* clearInterval and Date.now() grows without bound, so while the interval runs
\* such a callback cannot be put off forever.
LateTick ==
  \E t \in ClockReadings : t >= TIMED_MODE_DURATION /\ UpdateTimer(t)

\* The program under a clock that advances.
SpecFair == Init /\ [][Next]_vars /\ WF_vars(LateTick)

\* The same program with a localStorage whose setItem may throw (storage full or
\* disabled) each time endGame calls it.
NextStorage ==
  \/ \E m \in Modes : ShowGameScreen(m)
  \/ PlayAgain
  \/ ShowMainScreen
  \/ \E c \in CardIds : FlipCard(c)
  \/ \E i \in DOMAIN timeouts : \E ok \in BOOLEAN : MatchTimeout(i, ok)
  \/ \E i \in DOMAIN timeouts : MismatchTimeout(i)
  \/ \E i \in DOMAIN timeouts : CardTimeout(i)
  \/ \E t \in ClockReadings : UpdateTimer(t)

SpecStorage == Init /\ [][NextStorage]_vars

\* The deck builder of initGame on its own: the card pairs of an EMOJIS of n
\* symbols, shuffled once with the Math.random() values rs.  last.arg keeps n.
ShuffleDeck(n, rs) ==
  /\ cards' = ShuffleFrom(CardPairsOf(n), 2 * n, rs)
  /\ last' = [op |-> "shuffle", arg |-> n, sounds |-> <<>>]
  /\ UNCHANGED << titleVars, screen, currentMode, cls, flippedCards, matchedPairs, isLocked,
                  gameStarted, attempts, elapsedTime, timerInterval, orphans,
                  timerDisplay, bestTime, stored, boardShown, winVisible,
                  loseVisible, timeouts, endGameRuns, loseGameRuns >>

NextShuffle ==
  /\ last.op = "load"
  /\ \E n \in 1..MaxSymbols :
       \E rs \in [1..(2 * n - 1) -> ShuffleDraws] : ShuffleDeck(n, rs)

SpecShuffle == Init /\ [][NextShuffle]_vars

\* The main screen's title animation and the navigation that stops and starts
\* it; no card is clicked.
NextTitle ==
  \/ \E m \in Modes : ShowGameScreen(m)
  \/ ShowMainScreen
  \/ \E i \in DOMAIN titleTimeouts : \E match \in BOOLEAN : titleAnimStep(i, match)
  \/ \E i \in DOMAIN titleTimeouts : TitleSecond(i)
  \/ \E i \in DOMAIN titleTimeouts : TitleCompare(i)
  \/ \E i \in DOMAIN titleTimeouts : TitleClear(i)

SpecTitle == Init /\ [][NextTitle]_vars

\* -------------------------------------------------------------- properties

\* The cards that lie face up without being matched.
FaceUp == {c \in CardIds : Flipped(c)}

\* A card can be clicked: the game screen is shown and the board is not hidden.
Clickable == screen = "game" /\ boardShown

\* C1: a click on a card that is not Hidden (it is Flipped or Matched) changes
\* nothing: no card's classes, not the buffer, the lock, the counters or the timer,
\* and no sound is played.
C1_NonHiddenSelectIsNoOp ==
  [][\A c \in CardIds :
       (FlipCard(c) /\ (Flipped(c) \/ Matched(c))) => UNCHANGED vars]_vars

\* C1 witness: the board can be clicked while one pair is matched and one more
\* card lies face up, after an accepted flip.
C1_Witness ==
  /\ Clickable
  /\ last.op = "flipCard"
  /\ \E c \in CardIds : Flipped(c)
  /\ \E c \in CardIds : Matched(c)

\* C2: a click on a Hidden card while the engine is locked or the buffer already
\* holds two cards changes nothing, and does not start the timer.
C2_LockedSelectIsNoOp ==
  [][\A c \in CardIds :
       (FlipCard(c) /\ Hidden(c) /\ (isLocked \/ Len(flippedCards) >= 2))
         => UNCHANGED vars]_vars

\* C2 witness: the board can be clicked, a Hidden card is left and the engine is
\* locked, once with the buffer full and once (after a loss) with the buffer empty.
C2_Witness ==
  /\ Clickable
  /\ isLocked
  /\ \E c \in CardIds : Hidden(c)
  /\ Len(flippedCards) = 2 \/ (Lost /\ flippedCards = <<>>)

\* C3: in every reachable state at most two cards are face up without being
\* matched.
C3_AtMostTwoFaceUp == Cardinality(FaceUp) <= 2

\* C4: when the callback of two cards with equal symbols fires, both cards are
\* Matched, matchedPairs has grown by exactly 1, the buffer is empty and the lock
\* is released; and a Matched card stays Matched until the next initGame.
C4_MatchResolution ==
  [][/\ \A i \in DOMAIN timeouts :
          (MatchTimeout(i, TRUE) /\ ~timeouts[i].stale) =>
            /\ {"flipped", "matched"} \subseteq cls'[timeouts[i].c1]
            /\ {"flipped", "matched"} \subseteq cls'[timeouts[i].c2]
            /\ matchedPairs' = matchedPairs + 1
            /\ flippedCards' = <<>>
            /\ ~isLocked'
     /\ \A c \in CardIds :
          (Matched(c) /\ ~RestartStep) => {"flipped", "matched"} \subseteq cls'[c]
    ]_vars

\* C4 witness: the match callback of two cards of the board has just fired, the
\* first pair of the session.
C4_Witness ==
  /\ last.op = "match"
  /\ last.arg = "current"
  /\ matchedPairs = 1
  /\ Cardinality({c \in CardIds : Matched(c)}) = 2
  /\ flippedCards = <<>>
  /\ ~isLocked

\* C5: when the callback of two cards with different symbols fires, both cards
\* are Hidden again, the buffer is empty and matchedPairs is unchanged.
C5_MismatchResolution ==
  [][\A i \in DOMAIN timeouts :
       (MismatchTimeout(i) /\ ~timeouts[i].stale) =>
         /\ cls'[timeouts[i].c1] = {}
         /\ cls'[timeouts[i].c2] = {}
         /\ flippedCards' = <<>>
         /\ matchedPairs' = matchedPairs
    ]_vars

\* C5 witness: the mismatch callback of two cards of the board has just fired
\* in a started session, and every card is Hidden again.
C5_Witness ==
  /\ last.op = "mismatch"
  /\ last.arg = "current"
  /\ gameStarted
  /\ matchedPairs = 0
  /\ flippedCards = <<>>
  /\ \A c \in CardIds : Hidden(c)

\* C6: endGame runs only in a step that leaves matchedPairs equal to the number
\* of pairs, and every step that raises matchedPairs to that number runs endGame.
C6_WonIffAllMatched ==
  [][/\ (endGameRuns' # endGameRuns /\ ~RestartStep) => matchedPairs' = NumPairs
     /\ (matchedPairs' = NumPairs /\ matchedPairs # NumPairs) =>
          (endGameRuns = 0 /\ endGameRuns' = 1)
    ]_vars

\* C6 witness: the match callback has raised matchedPairs to the number of pairs
\* and endGame has run.
C6_Witness ==
  /\ last.op = "match"
  /\ last.sounds = <<"match", "win">>
  /\ matchedPairs = NumPairs
  /\ Won

\* C7: once the session is Won or Lost no click on a card changes anything, and
\* after Lost the engine stays locked, also when a pending callback fires, for as
\* long as the game screen is shown and initGame has not run again.
C7_EndIsTerminal ==
  [][((Won \/ Lost) /\ screen = "game" /\ screen' = "game" /\ ~RestartStep) =>
       /\ \A c \in CardIds : FlipCard(c) => UNCHANGED vars
       /\ Lost => isLocked'
    ]_vars

\* C8: in timed mode a tick that reads an elapsed time of at least
\* TIMED_MODE_DURATION loses the game in that tick, whatever is pending: the
\* display shows zero, the engine is locked and no interval is left running;
\* and none runs in a timed session after the loss.
C8_TimedLossAtDeadline ==
  [][/\ \A t \in ClockReadings :
          (UpdateTimer(t) /\ currentMode = "timed" /\ t >= TIMED_MODE_DURATION) =>
            /\ loseGameRuns = 0
            /\ loseGameRuns' = 1
            /\ isLocked'
            /\ timerDisplay' = << 0, 0, 0 >>
            /\ timerInterval' # "active" /\ orphans' = 0
     /\ (currentMode = "timed" /\ Lost /\ ~RestartStep) =>
          (timerInterval' # "active" /\ orphans' = 0)
    ]_vars

\* C8 witness: a tick at the deadline has lost a timed game while two cards were
\* waiting for their callback.
C8_Witness ==
  /\ last.op = "updateTimer"
  /\ currentMode = "timed"
  /\ elapsedTime = TIMED_MODE_DURATION
  /\ Lost
  /\ Len(flippedCards) = 2
  /\ matchedPairs < NumPairs
  /\ timerDisplay = FormatTime(0)

\* C9: loseGame never runs in a classic session.
C9_ClassicNeverLost == currentMode = "classic" => ~Lost

\* C9 witness: a classic session whose clock has passed TIMED_MODE_DURATION, a
\* tick being the last thing that happened.
C9_Witness ==
  /\ currentMode = "classic"
  /\ screen = "game"
  /\ last.op = "updateTimer"
  /\ elapsedTime > TIMED_MODE_DURATION
  /\ matchedPairs < NumPairs

\* The click on card c completes a pair: it is accepted and one card is buffered.
CompletesPair(c) == FlipCard(c) /\ ~FlipBlocked(c) /\ Len(flippedCards) = 1

\* C10: in limited mode a completed pair of different symbols increases attempts
\* by exactly 1, and a completed pair of equal symbols leaves attempts unchanged.
C10_OnlyMismatchesCount ==
  [][currentMode = "limited" =>
       \A c \in CardIds :
         CompletesPair(c) =>
           attempts' = IF SameSymbol(flippedCards[1], c) THEN attempts
                       ELSE attempts + 1
    ]_vars

\* C10 as the program has it: in limited mode every completed pair, of equal or
\* of different symbols, increases attempts by exactly 1 when it is detected, and
\* no other step of the session changes attempts.
C10_EveryPairCounts ==
  [][(currentMode = "limited" /\ ~RestartStep) =>
       attempts' = IF \E c \in CardIds : CompletesPair(c) THEN attempts + 1
                   ELSE attempts
    ]_vars

\* C10 witness: in limited mode the first completed pair has equal symbols and
\* has been counted.
C10_Witness ==
  /\ currentMode = "limited"
  /\ last.op = "flipCard"
  /\ attempts = 1
  /\ Len(flippedCards) = 2
  /\ cards[flippedCards[1]] = cards[flippedCards[2]]
  /\ timerDisplay = FormatAttempts(1)

\* C11: in limited mode the mismatch that brings attempts to
\* LIMITED_MODE_MAX_ATTEMPTS is counted when the second card is flipped, the
\* engine being locked and loseGame not yet called; loseGame is called only by a
\* mismatch callback, and a mismatch callback that fires with attempts at the
\* maximum calls it and leaves the engine locked, whatever matchedPairs is.
C11_LostAtRevealDelay ==
  [][currentMode = "limited" =>
       /\ \A c \in CardIds :
            (/\ CompletesPair(c)
             /\ ~SameSymbol(flippedCards[1], c)
             /\ attempts + 1 = LIMITED_MODE_MAX_ATTEMPTS) =>
              /\ attempts' = LIMITED_MODE_MAX_ATTEMPTS
              /\ isLocked'
              /\ loseGameRuns' = loseGameRuns
       /\ \A i \in DOMAIN timeouts :
            (/\ MismatchTimeout(i)
             /\ ~timeouts[i].stale
             /\ attempts >= LIMITED_MODE_MAX_ATTEMPTS) =>
              /\ loseGameRuns' = Bump(loseGameRuns)
              /\ isLocked'
       /\ (loseGameRuns' # loseGameRuns /\ ~RestartStep) =>
            \E i \in DOMAIN timeouts : MismatchTimeout(i)
    ]_vars

\* C11 witness: a limited session without a matched pair is Lost and locked, the
\* callback of its twelfth mismatch having just fired.
C11_Witness ==
  /\ currentMode = "limited"
  /\ last.op = "mismatch"
  /\ last.arg = "current"
  /\ attempts = LIMITED_MODE_MAX_ATTEMPTS
  /\ matchedPairs = 0
  /\ Lost
  /\ isLocked

\* C12: in limited mode the session is Lost if and only if attempts exceeds
\* LIMITED_MODE_MAX_ATTEMPTS while fewer than NumPairs pairs are matched.
C12_LostIffExceeded ==
  currentMode = "limited" =>
    /\ Lost => attempts > LIMITED_MODE_MAX_ATTEMPTS
    /\ (attempts > LIMITED_MODE_MAX_ATTEMPTS /\ matchedPairs < NumPairs) => Lost

\* C12 as the program has it: a limited session is never Lost with attempts below
\* LIMITED_MODE_MAX_ATTEMPTS, and it is Lost and locked once a mismatch callback
\* has fired with attempts at or above it.
C12_LostIffReached ==
  currentMode = "limited" =>
    /\ Lost => attempts >= LIMITED_MODE_MAX_ATTEMPTS
    /\ (last.op = "mismatch" /\ attempts >= LIMITED_MODE_MAX_ATTEMPTS) =>
         (Lost /\ isLocked)

\* C12 witness: a limited session Lost with attempts equal to the maximum, its
\* lose card shown.
C12_Witness ==
  /\ currentMode = "limited"
  /\ screen = "game"
  /\ Lost
  /\ loseVisible
  /\ attempts = LIMITED_MODE_MAX_ATTEMPTS

\* C13: while the mode is limited no interval is running, elapsedTime is 0 and
\* the display shows the attempts, so that no tick changes it or loses the game.
C13_LimitedNeverTicks ==
  currentMode = "limited" =>
    /\ ~IntervalRunning
    /\ elapsedTime = 0
    /\ timerDisplay = FormatAttempts(attempts)

\* C13 witness: a limited session in play, with attempts counted and a pair
\* matched.
C13_Witness ==
  /\ currentMode = "limited"
  /\ screen = "game"
  /\ gameStarted
  /\ attempts > 1
  /\ matchedPairs = 1

\* The click on card c is accepted: flipCard gets past its early return.
Accepted(c) == FlipCard(c) /\ ~FlipBlocked(c)

\* C14: until the first accepted click of a session no interval runs and
\* elapsedTime is 0; gameStarted is set by an accepted click and by nothing else;
\* the first accepted click starts the interval in classic and in timed mode (and
\* none in limited mode); and no later step of the session starts an interval.
C14_FirstSelectStartsTimer ==
  [][/\ ~gameStarted' => (~IntervalRunning' /\ elapsedTime' = 0)
     /\ (~gameStarted /\ gameStarted') => \E c \in CardIds : Accepted(c)
     /\ \A c \in CardIds :
          (Accepted(c) /\ ~gameStarted) =>
            /\ gameStarted'
            /\ timerInterval' = IF currentMode = "limited" THEN "null" ELSE "active"
            /\ orphans' = 0
     /\ (gameStarted /\ ~RestartStep) =>
          /\ gameStarted'
          /\ timerInterval' = "active" => timerInterval = "active"
          /\ orphans' = 0
    ]_vars

\* C14 witness: a timed session that was started by its first click, whose
\* interval has since been cleared by the loss, and in which a later click was
\* accepted.
C14_Witness ==
  /\ currentMode = "timed"
  /\ last.op = "flipCard"
  /\ gameStarted
  /\ Lost
  /\ timerInterval = "cleared"

\* C15: once endGame has run, no interval is running; and until the next
\* initGame elapsedTime does not change, the display of a classic or timed
\* session does not change, and loseGame does not run in timed mode.
C15_WonStopsTimer ==
  [][(Won' /\ ~RestartStep) =>
       /\ ~IntervalRunning'
       /\ Won =>
            /\ elapsedTime' = elapsedTime
            /\ currentMode # "limited" => timerDisplay' = timerDisplay
            /\ currentMode = "timed" => loseGameRuns' = loseGameRuns
    ]_vars

\* A step in which endGame runs.
EndGameStep == last'.op = "match" /\ last'.sounds = << "match", "win" >>

\* C16: when endGame runs in classic mode, bestTime becomes elapsedTime exactly
\* when there is no record or elapsedTime is strictly lower than the record, and
\* is unchanged otherwise; so a record, once set, never increases.
C16_BestRecordRule ==
  [][/\ (EndGameStep /\ currentMode = "classic") =>
          bestTime' = IF bestTime = Null \/ elapsedTime < bestTime
                      THEN elapsedTime ELSE bestTime
     /\ bestTime # Null => (bestTime' # Null /\ bestTime' <= bestTime)
    ]_vars

\* C17: bestTime and the stored record change only in a step in which endGame
\* runs with currentMode = 'classic': not on a win in timed or limited mode, not
\* on a loss, not on initGame and not on a change of screen.
C17_RecordOnlyInClassic ==
  [][(bestTime' # bestTime \/ stored' # stored) =>
       (EndGameStep /\ currentMode = "classic")
    ]_vars

\* C17 witness: a timed session was Won faster than the record of an earlier
\* classic session, and the record is as it was.
C17_Witness ==
  /\ currentMode = "timed"
  /\ Won
  /\ last.op = "match"
  /\ bestTime # Null
  /\ stored = bestTime
  /\ elapsedTime < bestTime

\* The board holds each symbol of EMOJIS on exactly two cards.
FreshDeck(d) ==
  /\ Len(d) = 2 * NumPairs
  /\ \A e \in EMOJIS : Cardinality({k \in DOMAIN d : d[k] = e}) = 2

\* C18: right after initGame, from whatever state: matchedPairs, attempts and
\* elapsedTime are 0, the buffer is empty, the engine is unlocked, the session is
\* not started, not Won and not Lost, the win and lose cards are hidden, no
\* interval is running, and the board holds a fresh deck of 2 * NumPairs Hidden
\* cards; the play-again buttons keep the mode.
C18_InitGameResets ==
  [][RestartStep =>
       /\ matchedPairs' = 0
       /\ attempts' = 0
       /\ elapsedTime' = 0
       /\ flippedCards' = <<>>
       /\ ~isLocked'
       /\ ~gameStarted'
       /\ ~Won' /\ ~Lost'
       /\ ~winVisible' /\ ~loseVisible' /\ boardShown'
       /\ ~IntervalRunning'
       /\ FreshDeck(cards')
       /\ cls' = [k \in 1..(2 * NumPairs) |-> {}]
       /\ last'.op = "playAgain" => currentMode' = currentMode
       /\ last'.op = "showGameScreen" => currentMode' = last'.arg
    ]_vars

\* C18 witness: the play-again button of the lose card has restarted a timed
\* session while a callback of the lost session was still pending.
C18_Witness ==
  /\ last.op = "playAgain"
  /\ currentMode = "timed"
  /\ timeouts # <<>>
  /\ ~gameStarted
  /\ timerDisplay = FormatTime(TIMED_MODE_DURATION)

\* A match or mismatch callback that was set before the last initGame.
StaleResolution(i) ==
  /\ timeouts[i].stale
  /\ MatchTimeout(i, TRUE) \/ MismatchTimeout(i)

\* C19: a match or mismatch callback that was set before initGame and fires
\* after it changes neither matchedPairs, the buffer, the lock, attempts nor a
\* card's classes, and calls neither endGame nor loseGame.
C19_StaleCallbacksInert ==
  [][\A i \in DOMAIN timeouts :
       StaleResolution(i) =>
         UNCHANGED << matchedPairs, flippedCards, isLocked, attempts, cls,
                      endGameRuns, loseGameRuns >>
    ]_vars

\* C20: showMainScreen leaves no interval running, and while the main screen is
\* shown no callback of the abandoned session changes matchedPairs, calls
\* endGame or loseGame, or changes the best record.
C20_NavigationCancels ==
  [][screen' = "main" =>
       /\ ~IntervalRunning'
       /\ screen = "main" =>
            UNCHANGED << matchedPairs, endGameRuns, loseGameRuns, bestTime, stored >>
    ]_vars

\* A match or mismatch callback of the current board is pending.
ResolutionPending ==
  \E i \in DOMAIN timeouts :
    timeouts[i].kind \in {"match", "mismatch"} /\ ~timeouts[i].stale

\* C24: whenever the buffer holds two cards isLocked is true, and no click is
\* accepted between the second flip of a pair and the firing of its callback.
C24_LockedWhileResolving ==
  [][/\ Len(flippedCards') = 2 => isLocked'
     /\ \A c \in CardIds : Accepted(c) => ~ResolutionPending
    ]_vars

\* C25: matchedPairs equals the number of pairs of Matched cards on the board,
\* and so lies between 0 and the number of pairs.
C25_MatchedPairsCountsBoard ==
  /\ 2 * matchedPairs = Cardinality({c \in CardIds : Matched(c)})
  /\ matchedPairs >= 0
  /\ matchedPairs <= NumPairs

\* C26: the buffer holds exactly the cards of the board that are face up and not
\* Matched.
C26_BufferIsFaceUp ==
  {flippedCards[k] : k \in DOMAIN flippedCards} = FaceUp

\* C27: endGame and loseGame never both run in one session, and each runs at
\* most once in a session.
C27_WonLostExclusive ==
  /\ ~(Won /\ Lost)
  /\ endGameRuns <= 1
  /\ loseGameRuns <= 1

\* C28: at most one interval exists at any time, none is left running by an
\* earlier session, and one runs only on the game screen in a session that its
\* own first click started.
C28_OneInterval ==
  /\ orphans = 0
  /\ timerInterval = "active" =>
       (gameStarted /\ screen = "game" /\ currentMode # "limited")

\* C28 witness: the interval of a new session is running while a callback of the
\* session before it, which had an interval of its own, is still pending.
C28_Witness ==
  /\ timerInterval = "active"
  /\ elapsedTime > 0
  /\ \E i \in DOMAIN timeouts : timeouts[i].stale

\* C29: in limited mode attempts never exceeds LIMITED_MODE_MAX_ATTEMPTS.
C29_AttemptsWithinMax ==
  currentMode = "limited" =>
    (attempts >= 0 /\ attempts <= LIMITED_MODE_MAX_ATTEMPTS)

\* C23: when endGame runs in classic mode with a new best time, then whether or
\* not setItem succeeds bestTime holds the new value and the win card's timeout
\* has been set, so that the win is presented.
C23_WriteFailureAbsorbed ==
  [][(EndGameStep /\ currentMode = "classic" /\ NewBest) =>
       /\ bestTime' = elapsedTime
       /\ Len(timeouts') = Len(timeouts)
       /\ timeouts'[Len(timeouts')].kind = "winCard"
    ]_vars

\* C21: for every number n of symbols and every sequence of Math.random()
\* values, the shuffled deck has length 2n and holds each of the n symbols on
\* exactly two cards.
C21_ShuffleKeepsPairs ==
  last.op = "shuffle" =>
    /\ Len(cards) = 2 * last.arg
    /\ \A e \in 1..last.arg : Cardinality({k \in DOMAIN cards : cards[k] = e}) = 2
    /\ \A k \in DOMAIN cards : cards[k] \in 1..last.arg

\* C21 witness: a deck of three symbols whose order the shuffle changed, with
\* the two cards of one symbol brought next to each other.
C21_Witness ==
  /\ last.op = "shuffle"
  /\ last.arg = 3
  /\ cards # CardPairsOf(3)
  /\ cards[1] = cards[2]

\* C22: under a clock that advances, a timed session whose first click was
\* accepted ends Won or Lost unless it is abandoned by a restart or by going
\* back to the main screen.
C22_TimedSessionEnds ==
  (currentMode = "timed" /\ gameStarted /\ screen = "game")
    ~> (Won \/ Lost \/ ~gameStarted \/ screen = "main")

\* C22 witness: a timed session in which one pair was matched has just been
\* lost by a tick at the deadline.
C22_Witness ==
  /\ currentMode = "timed"
  /\ screen = "game"
  /\ gameStarted
  /\ matchedPairs = 1
  /\ Lost /\ ~Won
  /\ last.op = "updateTimer"
  /\ elapsedTime = TIMED_MODE_DURATION

\* A callback of the title animation fires.
TitleCallback(i) ==
  \/ \E match \in BOOLEAN : titleAnimStep(i, match)
  \/ TitleSecond(i)
  \/ TitleCompare(i)
  \/ TitleClear(i)

\* C30: while the title animation runs at most one of its callbacks is pending
\* (one chain), and a callback set before a stopTitleAnimation sets no further
\* callback when it fires after the next startTitleAnimation.
C30_OneTitleChain ==
  [][/\ titleAnimRunning' => Len(titleTimeouts') <= 1
     /\ \A i \in DOMAIN titleTimeouts :
          (titleTimeouts[i].old /\ TitleCallback(i)) =>
            titleTimeouts' = Without(titleTimeouts, i)
    ]_vars

====
